---- MODULE Spec2Model ----
(***************************************************************************)
(* Zone-transition tracking of the E-Trace scripts.                        *)
(*                                                                         *)
(*   realtime_tracker.py  RealTimeElephantTracker: circular zones          *)
(*                        (boundary_circles), per-elephant membership      *)
(*                        (elephant_inside_circles), SMS cooldown          *)
(*                        (_last_sms_sent), the asyncio tracking task.     *)
(*   data_tracker.py      one static square zone (BOUNDARY_CONFIG),        *)
(*                        elephants_in_boundary, the replay task.          *)
(*                                                                         *)
(* One run launches one script; the variable script says which.            *)
(*                                                                         *)
(* Geographic coordinates are held as integers in metres north / east of   *)
(* (0,0): one unit of lat is 1/111320 degree, one unit of lng is           *)
(* 1/(111320*cos(lat0)) degree, so that the two divisions of               *)
(* _pixels_to_latlng and the two multiplications of                        *)
(* _detect_circle_exits_and_alert are exact integer operations.            *)
(***************************************************************************)
EXTENDS Integers, Sequences, FiniteSets, TLC

VARIABLES
    script,                   \* "realtime_tracker" or "data_tracker"
    now,                      \* time.time(), whole seconds
    is_running,               \* self.is_running / global is_running
    pc,                       \* asyncio tasks made by create_task: slot -> position
    cap_open,                 \* self.cap is not None and self.cap.isOpened()
    CAMERA_CONFIG,            \* self.CAMERA_CONFIG
    boundary_circles,         \* self.boundary_circles
    elephant_inside_circles,  \* self.elephant_inside_circles
    last_sms_sent,            \* self._last_sms_sent
    twilio_client,            \* self.twilio_client is not None (and recipients are set)
    BOUNDARY_CONFIG,          \* data_tracker.BOUNDARY_CONFIG
    connected_clients,        \* data_tracker.connected_clients
    frame_count,              \* data_tracker.frame_count
    elephants_in_boundary,    \* data_tracker.elephants_in_boundary
    frame_data,               \* data_tracker: frame_data["objects"] of the last frame update
    emitted,                  \* transitions logged and alerts sent by the last step
    broadcast,                \* type of the message the last step broadcast to all clients
    reply,                    \* command_response status of the last handler
    op,                       \* the last step of the program: its kind, the entities it
                              \*   sampled (ids), those of them sampled where they were
                              \*   sampled last (same), the dropped pairs it sampled (settled)
    turn,                     \* flips at every step of the program
    sentAt,                   \* history: (elephant, circle) -> time of the last SMS dispatch
    contained,                \* history: entity -> its latest sample since the registry was
                              \*   set: where it was (at), under which CAMERA_CONFIG
                              \*   (cfg), and the zones that held it (holds)
    dropped,                  \* history: (entity, zone): inside the zone when set_config
                              \*   removed it, and not sampled since
    probe,                    \* history: the (elephant, circle) pair whose throttle is logged
    calls,                    \* history: what happened to the throttle entry of probe
    frame_indexes,            \* history: frame_index of every animation_frame_update since frame_count = 0
    unprocessed,              \* history: ids of the latest frame's objects the pass never reached
    bcast,                    \* broadcast_to_all_clients suspended on a send: its set iterator,
                              \*   its list `disconnected`, and what it has delivered
    object_tracker,           \* video_tracker.object_tracker: object id -> last centre
    next_object_id            \* video_tracker.next_object_id

vars == <<script, now, is_running, pc, cap_open, CAMERA_CONFIG, boundary_circles,
          elephant_inside_circles, last_sms_sent, twilio_client, BOUNDARY_CONFIG, connected_clients, frame_count,
          elephants_in_boundary, frame_data, emitted, broadcast, reply, op, turn,
          sentAt, contained, dropped, probe, calls, frame_indexes, unprocessed, bcast,
          object_tracker, next_object_id>>

-----------------------------------------------------------------------------
(* Bounds of the model *)

MaxZones == 2          \* longest boundaryCircles list a client sends
MaxElapsed == 130      \* the clock runs from Epoch to Epoch + MaxElapsed
NumFrames == 2         \* len(frames) of the tracking data file
MaxCalls == 3          \* throttle events of the probe pair that are logged
MaxObjects == 2        \* most objects in one frame of the tracking data file
MaxObjectIds == 4      \* video_tracker: next_object_id runs up to this value

(* Program constants *)

SMS_COOLDOWN_SECONDS == 120

\* time.time() counts from 1970: every run starts far more than one cooldown after 0
Epoch == 10 * SMS_COOLDOWN_SECONDS

Steps == {60, 70}      \* seconds the clock may advance in one Tick

Entities == {1, 2}     \* tracker ids handed out by ByteTrack

FrameCenter == [x |-> 320, y |-> 240]   \* frame_width / 2.0, frame_height / 2.0

RP0 == [lat |-> -140000, lng |-> 3800000]

\* Boundary circles as main loads them and set_config stores them
ZA == [id |-> "A", center |-> [lat |-> RP0.lat, lng |-> RP0.lng], radius |-> 100]
ZB == [id |-> "B", center |-> [lat |-> RP0.lat, lng |-> RP0.lng + 150], radius |-> 100]
ZE == [id |-> "", center |-> [lat |-> RP0.lat, lng |-> RP0.lng + 300], radius |-> 100]

ZN == [id |-> "N", center |-> [lat |-> RP0.lat, lng |-> RP0.lng], radius |-> 0]

GoodZones == {ZA, ZB}

\* Entries of a boundaryCircles list as a client sends them: numeric says whether
\* float() accepts the entry's center.lat, center.lng and radius
Sent(z, numeric) == [id |-> z.id, center |-> z.center, radius |-> z.radius, numeric |-> numeric]

SentZones == { Sent(z, TRUE) : z \in GoodZones } \cup { Sent(ZA, FALSE) }

\* Pixel centres of detections, east of the frame centre by
PxA == [x |-> 320, y |-> 240]      \* 0 m: inside A only
PxAB == [x |-> 328, y |-> 240]     \* 80 m: inside A and B
PxE == [x |-> 350, y |-> 240]      \* 300 m: inside the circle with id "" only
PxOut == [x |-> 420, y |-> 240]    \* 1000 m: inside no circle

Pixels == {PxA, PxAB, PxE, PxOut}

\* BOUNDARY_CONFIG as the module sets it
Square == [enabled |-> TRUE, center |-> [x |-> 200, y |-> 250], size |-> 100]

SeqsUpTo(S, n) == UNION { [1..k -> S] : k \in 0..n }

Range(s) == { s[i] : i \in DOMAIN s }

-----------------------------------------------------------------------------
(* realtime_tracker.py *)

\* _pixels_to_latlng
MutOriginTopLeft(cfg, x_px, y_px) ==
    LET rp == cfg.referencePoint
        meters_per_unit == cfg.scale.metersPerUnit
    IN  [lat |-> rp.lat + y_px * meters_per_unit, lng |-> rp.lng + x_px * meters_per_unit]

pixels_to_latlng(cfg, x_px, y_px) ==
    LET rp == cfg.referencePoint
        meters_per_unit == cfg.scale.metersPerUnit
        x_m == (x_px - FrameCenter.x) * meters_per_unit
        y_m == (y_px - FrameCenter.y) * meters_per_unit
    IN  [lat |-> rp.lat + y_m, lng |-> rp.lng + x_m]

\* the distance test of one circle: dist <= radius, dist = sqrt(d_lat_m^2 + d_lng_m^2) >= 0
InCircle(bc, lat, lng) ==
    LET d_lat_m == lat - bc.center.lat
        d_lng_m == lng - bc.center.lng
    IN  bc.radius >= 0 /\ d_lat_m * d_lat_m + d_lng_m * d_lng_m <= bc.radius * bc.radius

\* the loop building current_inside
MutFirstCircleOnly(circles, lat, lng) ==
    LET holding == { j \in DOMAIN circles : InCircle(circles[j], lat, lng) }
    IN  { circles[i].id : i \in { j \in holding : \A k \in holding : j <= k } }

CurrentInside(circles, lat, lng) ==
    { circles[i].id : i \in { j \in DOMAIN circles : InCircle(circles[j], lat, lng) } }

Get(d, k, default) == IF k \in DOMAIN d THEN d[k] ELSE default

Ev(kind, id, zone) == [kind |-> kind, id |-> id, zone |-> zone]

\* _maybe_send_exit_sms: the cooldown test
CooldownActive(sms, key, t) == t - Get(sms, key, 0) < SMS_COOLDOWN_SECONDS

\* _maybe_send_exit_sms: new _last_sms_sent and what was logged / dispatched
MutSmsKeepsNoRecord(sms, elephant_id, circle_id, t) ==
    LET key == <<elephant_id, circle_id>>
    IN  IF CooldownActive(sms, key, t)
        THEN [sms |-> sms, out |-> {Ev("SUPPRESSED", elephant_id, circle_id)}]
        ELSE [sms |-> sms, out |-> {Ev("ALERT", elephant_id, circle_id)}]

maybe_send_exit_sms(sms, elephant_id, circle_id, t) ==
    LET key == <<elephant_id, circle_id>>
    IN  IF CooldownActive(sms, key, t)
        THEN [sms |-> sms, out |-> {Ev("SUPPRESSED", elephant_id, circle_id)}]
        ELSE [sms |-> (key :> t) @@ sms,
              out |-> {Ev("ALERT", elephant_id, circle_id)}]

\* for cid in exited: self._maybe_send_exit_sms(elephant_id, cid)
RECURSIVE SendExits(_, _, _, _)
SendExits(sms, elephant_id, exited, t) ==
    IF exited = {} THEN [sms |-> sms, out |-> {}]
    ELSE LET cid == CHOOSE c \in exited : TRUE
             one == maybe_send_exit_sms(sms, elephant_id, cid, t)
             rest == SendExits(one.sms, elephant_id, exited \ {cid}, t)
         IN  [sms |-> rest.sms, out |-> one.out \cup rest.out]

\* the circles whose transition reaches _maybe_send_exit_sms: `for cid in exited`
MutAlertEntered(exited, entered) == exited \cup entered

Alerted(exited, entered) == exited

\* self.elephant_inside_circles[elephant_id] = current_inside
MutStoreMerges(inside, elephant_id, current_inside) ==
    (elephant_id :> (Get(inside, elephant_id, {}) \cup current_inside)) @@ inside

MutStoreForgetsOthers(inside, elephant_id, current_inside) ==
    (elephant_id :> current_inside)

StoreInside(inside, elephant_id, current_inside) ==
    (elephant_id :> current_inside) @@ inside

\* _detect_circle_exits_and_alert on the state st = [inside, sms, out]
detect_circle_exits_and_alert(st, circles, elephant_id, lat, lng, t) ==
    IF circles = <<>> THEN st
    ELSE LET prev_inside == Get(st.inside, elephant_id, {})
             current_inside == CurrentInside(circles, lat, lng)
             exited == { cid \in prev_inside : cid \notin current_inside }
             entered == { cid \in current_inside : cid \notin prev_inside }
             sent == SendExits(st.sms, elephant_id, Alerted(exited, entered), t)
         IN  [inside |-> StoreInside(st.inside, elephant_id, current_inside),
              sms |-> sent.sms,
              out |-> st.out \cup sent.out
                      \cup { Ev("EXIT", elephant_id, cid) : cid \in exited }
                      \cup { Ev("ENTRY", elephant_id, cid) : cid \in entered }]

\* process_video_frame: the loop over the detections of one frame
RECURSIVE ProcessDetections(_, _, _, _, _)
ProcessDetections(st, cfg, circles, dets, t) ==
    IF DOMAIN dets = {} THEN st
    ELSE LET tracker_id == CHOOSE e \in DOMAIN dets : \A o \in DOMAIN dets : e <= o
             p == pixels_to_latlng(cfg, dets[tracker_id].x, dets[tracker_id].y)
             one == IF circles # <<>>
                    THEN detect_circle_exits_and_alert(st, circles, tracker_id, p.lat, p.lng, t)
                    ELSE st
             rest == [e \in DOMAIN dets \ {tracker_id} |-> dets[e]]
         IN  ProcessDetections(one, cfg, circles, rest, t)

\* history: the dispatch time of every SMS alert of a step
Dispatched(old, out, t) ==
    LET keys == { <<ev.id, ev.zone>> : ev \in { x \in out : x.kind = "ALERT" } }
    IN  [k \in DOMAIN old \cup keys |-> IF k \in keys THEN t ELSE old[k]]

\* history: the throttle of the probe pair: calls of _maybe_send_exit_sms for it, in
\* order, and removals of its entry ("POP"); the first MaxCalls are kept
Logged(log, entries) ==
    LET all == log \o entries
    IN  IF Len(all) <= MaxCalls THEN all ELSE SubSeq(all, 1, MaxCalls)

CallsIn(out, t) ==
    LET mine == { ev \in out : ev.kind \in {"ALERT", "SUPPRESSED"} /\ <<ev.id, ev.zone>> = probe }
    IN  IF mine = {} THEN << >>
        ELSE << [t |-> t, what |-> (CHOOSE ev \in mine : TRUE).kind] >>

\* history: the latest sample of every entity, new: the samples of a frame
Sampled(old, new) ==
    [e \in DOMAIN old \cup DOMAIN new |-> IF e \in DOMAIN new THEN new[e] ELSE old[e]]

Ids(circles) == { circles[i].id : i \in DOMAIN circles }

\* history: the ids of the circles holding a detection at pixel px
Holding(cfg, circles, px) ==
    LET p == pixels_to_latlng(cfg, px.x, px.y)
    IN  { z \in Ids(circles) :
            \E i \in DOMAIN circles : circles[i].id = z /\ InCircle(circles[i], p.lat, p.lng) }

NoProbe == <<0, "-">>

Slots == DOMAIN pc

FreeSlots == { t \in Slots : pc[t] \in {"none", "done"} }

FreeSlot == CHOOSE t \in FreeSlots : \A u \in FreeSlots : t <= u

\* stopped: a stop_tracking has been handled and no start_tracking has arrived since
StoppedAfter(kind) == kind = "stop_tracking" \/ (kind # "start_tracking" /\ op.stopped)

Step(kind, ids) ==
    /\ op' = [kind |-> kind, ids |-> ids, same |-> {}, settled |-> {}, key |-> NoProbe,
          sent |-> << >>, stopped |-> StoppedAfter(kind)]
    /\ turn' = 1 - turn

\* a step of set_config; sent: <<l>> when it replaced the registry by the list l, or << >>
SentStep(sent) ==
    /\ op' = [kind |-> "set_config", ids |-> {}, same |-> {}, settled |-> {}, key |-> NoProbe,
              sent |-> sent, stopped |-> op.stopped]
    /\ turn' = 1 - turn

\* a step of send_test_exit for the pair key
KeyStep(kind, key) ==
    /\ op' = [kind |-> kind, ids |-> {}, same |-> {}, settled |-> {}, key |-> key,
              sent |-> << >>, stopped |-> op.stopped]
    /\ turn' = 1 - turn

\* a step that processed a frame: at[e] is where the frame has entity e, under cfg
FrameStep(at, cfg) ==
    /\ op' = [kind |-> "frame", ids |-> DOMAIN at,
              same |-> { e \in DOMAIN at \cap DOMAIN contained :
                           contained[e].at = at[e] /\ contained[e].cfg = cfg },
              settled |-> { d \in dropped : d[1] \in DOMAIN at },
              key |-> NoProbe, sent |-> << >>, stopped |-> op.stopped]
    /\ turn' = 1 - turn

\* no broadcast is suspended
NoBroadcast == [state |-> "idle", used |-> 0, yielded |-> 0, cur |-> "-", changed |-> FALSE,
                stayed |-> {}, delivered |-> {}, disconnected |-> {},
                completed |-> {}, again |-> {}]

\* connected_clients.add(c) / .discard(c) while a broadcast is suspended on a send:
\* the set its iterator walks has changed, and c has not stayed connected.
\* completed: the connections that were sent tracking_complete in this session;
\* again: those that were sent it a second time.
SetChanged(b, c) ==
    IF b.state = "send"
    THEN [b EXCEPT !.changed = TRUE, !.stayed = @ \ {c}, !.completed = @ \ {c}]
    ELSE [b EXCEPT !.completed = @ \ {c}]

VideoVars == <<object_tracker, next_object_id>>
DataVars == <<BOUNDARY_CONFIG, connected_clients, frame_count, elephants_in_boundary, frame_data,
              bcast>>
CircleVars == <<CAMERA_CONFIG, boundary_circles, elephant_inside_circles, last_sms_sent,
               twilio_client>>
HistVars == <<sentAt, contained, dropped, probe, calls, frame_indexes, unprocessed>>

\* a synchronous Twilio call is in progress: the event loop runs nothing else
Blocked == \E t \in Slots : pc[t] = "sending"

\* the clock
Tick(d) ==
    /\ now + d <= Epoch + MaxElapsed
    /\ now' = now + d
    /\ UNCHANGED <<script, VideoVars, is_running, pc, cap_open, CircleVars, DataVars, HistVars,
                   emitted, broadcast, reply, op, turn>>

\* handle_client_message, set_config: the loop building safe_list
RECURSIVE SafeList(_)
MutSafeListAdds(bcircles) ==
    boundary_circles \o [i \in DOMAIN bcircles |->
                            [id |-> bcircles[i].id, center |-> bcircles[i].center,
                             radius |-> bcircles[i].radius]]

SafeList(bcircles) ==
    IF bcircles = <<>> THEN <<>>
    ELSE LET bc == Head(bcircles)
         IN  IF bc.numeric
             THEN <<[id |-> bc.id, center |-> bc.center, radius |-> bc.radius]>>
                  \o SafeList(Tail(bcircles))
             ELSE SafeList(Tail(bcircles))

\* set_config: Reset inside-tracking for fresh evaluation
MutKeepInside(inside) == inside

ResetInside(inside) == << >>

\* A field of the config a client sends: absent, present with values float() rejects
\* ("bad"), or present and numeric ("ok", with the value v).
Field(tag, v) == [tag |-> tag, v |-> v]

\* set_config: isinstance(bcircles, list)
MutAbsentIsEmptyList(bcircles) == bcircles.tag \in {"ok", "absent"}

IsList(bcircles) == bcircles.tag = "ok"

\* handle_client_message, command set_config.  rp: referencePoint, sc: scale,
\* bcircles: boundaryCircles ("ok": v is the list sent; anything else: not a list).
SetConfig(rp, sc, bcircles) ==
    /\ script = "realtime_tracker"
    /\ ~Blocked
    /\ SentStep(IF rp.tag # "bad" /\ sc.tag # "bad" /\ bcircles.tag = "ok"
                THEN << bcircles.v >> ELSE << >>)
    /\ LET cfg1 == IF rp.tag = "ok" THEN [CAMERA_CONFIG EXCEPT !.referencePoint = rp.v]
                   ELSE CAMERA_CONFIG
           cfg2 == IF sc.tag = "ok" THEN [cfg1 EXCEPT !.scale = [metersPerUnit |-> sc.v]]
                   ELSE cfg1
       IN  IF rp.tag = "bad"
           THEN \* float(rp['lat']) raises: the handler logs the error and ends
                /\ reply' = "none"
                /\ UNCHANGED <<CAMERA_CONFIG, boundary_circles, elephant_inside_circles>>
           ELSE IF sc.tag = "bad"
           THEN \* float(sc['metersPerUnit']) raises after referencePoint was stored
                /\ CAMERA_CONFIG' = cfg1
                /\ reply' = "none"
                /\ UNCHANGED <<boundary_circles, elephant_inside_circles>>
           ELSE /\ CAMERA_CONFIG' = cfg2
                /\ reply' = "config_updated"
                /\ IF ~IsList(bcircles)
                   THEN UNCHANGED <<boundary_circles, elephant_inside_circles>>
                   ELSE /\ boundary_circles' = SafeList(bcircles.v)
                        /\ elephant_inside_circles' = ResetInside(elephant_inside_circles)
    /\ IF rp.tag # "bad" /\ sc.tag # "bad" /\ bcircles.tag = "ok"
       THEN /\ contained' = << >>
            /\ dropped' = { d \in (DOMAIN contained) \X Ids(boundary_circles) :
                              d[2] \in contained[d[1]].holds
                              /\ d[2] \notin Ids(boundary_circles') }
       ELSE UNCHANGED <<contained, dropped>>
    /\ emitted' = {}
    /\ broadcast' = "none"
    /\ UNCHANGED <<script, VideoVars, now, is_running, pc, cap_open, last_sms_sent, twilio_client,
                   DataVars, sentAt, probe, calls, frame_indexes, unprocessed>>

\* handle_client_message, command send_test_exit
SendTestExit(circle_id, elephant_id, ignore_cooldown) ==
    /\ script = "realtime_tracker"
    /\ ~Blocked
    /\ KeyStep(IF ignore_cooldown THEN "force_test_exit" ELSE "send_test_exit",
               <<elephant_id, circle_id>>)
    /\ LET key == <<elephant_id, circle_id>>
           popped == IF ignore_cooldown
                     THEN [k \in DOMAIN last_sms_sent \ {key} |-> last_sms_sent[k]]
                     ELSE last_sms_sent
           sent == maybe_send_exit_sms(popped, elephant_id, circle_id, now)
       IN  IF circle_id # ""
           THEN /\ last_sms_sent' = sent.sms
                /\ emitted' = sent.out
                /\ reply' = "test_exit_sent"
           ELSE /\ last_sms_sent' = popped
                /\ emitted' = {}
                /\ reply' = "error"
    /\ sentAt' = Dispatched(sentAt, emitted', now)
    /\ calls' = Logged(calls,
                       (IF ignore_cooldown /\ <<elephant_id, circle_id>> = probe
                           /\ probe \in DOMAIN last_sms_sent
                        THEN << [t |-> now, what |-> "POP"] >> ELSE << >>)
                       \o CallsIn(emitted', now))
    /\ broadcast' = "none"
    /\ UNCHANGED <<script, VideoVars, now, is_running, pc, cap_open, CAMERA_CONFIG, boundary_circles,
                   elephant_inside_circles, twilio_client, DataVars, contained, dropped,
                   probe, frame_indexes, unprocessed>>

\* handle_client_message, command start_tracking (realtime_tracker.py)
StartTracking ==
    /\ script = "realtime_tracker"
    /\ ~Blocked
    /\ Step("start_tracking", {})
    /\ IF ~is_running
       THEN /\ FreeSlots # {}
            /\ pc' = [pc EXCEPT ![FreeSlot] = "created"]
            /\ reply' = "tracking_started"
       ELSE /\ reply' = "already_running"
            /\ UNCHANGED pc
    /\ emitted' = {}
    /\ broadcast' = "none"
    /\ UNCHANGED <<script, VideoVars, now, is_running, cap_open, CircleVars, DataVars, HistVars>>

\* handle_client_message, command stop_tracking (both scripts)
StopTracking ==
    /\ script = "data_tracker" => connected_clients # {}
    /\ ~Blocked
    /\ Step("stop_tracking", {})
    /\ is_running' = FALSE
    /\ reply' = "tracking_stopped"
    /\ emitted' = {}
    /\ broadcast' = "none"
    /\ UNCHANGED <<script, VideoVars, now, pc, cap_open, CircleVars, DataVars, HistVars>>

\* start_real_time_tracking up to its first await; opened: initialize_video_capture()
TaskStart(t, opened) ==
    /\ script = "realtime_tracker"
    /\ pc[t] = "created"
    /\ ~Blocked
    /\ Step("task_start", {})
    /\ IF opened
       THEN /\ cap_open' = TRUE
            /\ is_running' = TRUE
            /\ pc' = [pc EXCEPT ![t] = "loop"]
            /\ broadcast' = "tracking_started"
       ELSE /\ cap_open' = FALSE
            /\ pc' = [pc EXCEPT ![t] = "done"]
            /\ broadcast' = "none"
            /\ UNCHANGED is_running
    /\ bcast' = NoBroadcast
    /\ emitted' = {}
    /\ reply' = "none"
    /\ UNCHANGED <<script, VideoVars, now, CircleVars, HistVars, BOUNDARY_CONFIG, connected_clients,
                   frame_count, elephants_in_boundary, frame_data>>

\* one pass of `while self.is_running`, from the test to the next await.
\* ret: cap.read() gave a frame; frame: the detections of that frame, a function
\* from tracker ids to pixel centres.
TaskStep(t, ret, frame) ==
    /\ script = "realtime_tracker"
    /\ pc[t] = "loop"
    /\ ~Blocked
    /\ reply' = "none"
    /\ IF ~is_running
       THEN \* the loop ends: Cleanup
            /\ Step("task_stopped", {})
            /\ cap_open' = FALSE
            /\ pc' = [pc EXCEPT ![t] = "done"]
            /\ emitted' = {}
            /\ broadcast' = "none"
            /\ UNCHANGED <<elephant_inside_circles, last_sms_sent, HistVars>>
       ELSE IF ~cap_open \/ ~ret
       THEN \* process_video_frame returns None: tracking_complete, break, Cleanup
            /\ Step("task_complete", {})
            /\ cap_open' = FALSE
            /\ pc' = [pc EXCEPT ![t] = "done"]
            /\ emitted' = {}
            /\ broadcast' = "tracking_complete"
            /\ UNCHANGED <<elephant_inside_circles, last_sms_sent, HistVars>>
       ELSE LET st == ProcessDetections(
                          [inside |-> elephant_inside_circles, sms |-> last_sms_sent, out |-> {}],
                          CAMERA_CONFIG, boundary_circles, frame, now)
            IN  /\ FrameStep(frame, CAMERA_CONFIG)
                /\ elephant_inside_circles' = st.inside
                /\ last_sms_sent' = st.sms
                /\ emitted' = st.out
                /\ IF twilio_client /\ \E ev \in st.out : ev.kind = "ALERT"
                   THEN \* _broadcast_sms is inside twilio_client.messages.create
                        /\ pc' = [pc EXCEPT ![t] = "sending"]
                        /\ broadcast' = "none"
                   ELSE /\ broadcast' = "live_tracking_update"
                        /\ UNCHANGED pc
                /\ sentAt' = Dispatched(sentAt, st.out, now)
                /\ calls' = Logged(calls, CallsIn(st.out, now))
                /\ contained' = Sampled(contained,
                                        [e \in DOMAIN frame |->
                                            [at |-> frame[e], cfg |-> CAMERA_CONFIG,
                                             pos |-> pixels_to_latlng(CAMERA_CONFIG,
                                                                      frame[e].x, frame[e].y),
                                             holds |-> Holding(CAMERA_CONFIG, boundary_circles,
                                                               frame[e])]])
                /\ dropped' = { d \in dropped : d[1] \notin DOMAIN frame }
                /\ UNCHANGED <<cap_open, probe, frame_indexes, unprocessed>>
    /\ UNCHANGED <<script, VideoVars, now, is_running, CAMERA_CONFIG, boundary_circles, twilio_client,
                   DataVars>>

\* _broadcast_sms: what the call gives back to process_video_frame; ok: Twilio
\* accepted the message.  A failure is caught and logged inside _broadcast_sms.
MutSmsRaises(ok) == [raised |-> ~ok, sent |-> ok]

broadcast_sms(ok) == [raised |-> FALSE, sent |-> ok]

\* twilio_client.messages.create returns or raises; process_video_frame goes on to
\* its end and the loop broadcasts the frame
TransportReturn(t, ok) ==
    /\ script = "realtime_tracker"
    /\ pc[t] = "sending"
    /\ Step(IF broadcast_sms(ok).sent THEN "sms_sent" ELSE "sms_failed", op.ids)
    /\ pc' = [pc EXCEPT ![t] = "loop"]
    /\ emitted' = {}
    /\ broadcast' = IF broadcast_sms(ok).raised
                    THEN "none"   \* except Exception in the loop: the frame is not sent
                    ELSE "live_tracking_update"
    /\ reply' = "none"
    /\ UNCHANGED <<script, VideoVars, now, is_running, cap_open, CircleVars, DataVars, HistVars>>

\* __init__, then main: boundary circles from --circles / --boundary-* / the
\* environment (or none); slots: the task slots of the event loop
InitRealtime(slots, circles, probes, twilio) ==
    /\ script = "realtime_tracker"
    /\ now = Epoch
    /\ is_running = FALSE
    /\ pc = [t \in slots |-> "none"]
    /\ cap_open = FALSE
    /\ CAMERA_CONFIG = [referencePoint |-> RP0, scale |-> [metersPerUnit |-> 10]]
    /\ boundary_circles \in circles
    /\ elephant_inside_circles = << >>
    /\ last_sms_sent = << >>
    /\ twilio_client \in twilio
    /\ BOUNDARY_CONFIG = Square
    /\ connected_clients = {}
    /\ frame_count = 0
    /\ elephants_in_boundary = {}
    /\ frame_data = << >>
    /\ emitted = {}
    /\ broadcast = "none"
    /\ reply = "none"
    /\ op = [kind |-> "init", ids |-> {}, same |-> {}, settled |-> {}, key |-> NoProbe,
          sent |-> << >>, stopped |-> FALSE]
    /\ turn = 0
    /\ sentAt = << >>
    /\ contained = << >>
    /\ dropped = {}
    /\ probe \in probes
    /\ calls = << >>
    /\ frame_indexes = << >>
    /\ unprocessed = {}
    /\ bcast = NoBroadcast
    /\ object_tracker = << >>
    /\ next_object_id = 1

-----------------------------------------------------------------------------
(* Inputs of the realtime tracker *)

\* the detections of a frame: tracker id -> pixel centre, seen[e] the pixels e may be at
Frames(seen) ==
    UNION { { f \in [D -> Pixels] : \A e \in D : f[e] \in seen[e] } : D \in SUBSET DOMAIN seen }

\* elephant 1 walks through both circles, elephant 2 in and out of A
Walk == [e \in Entities |-> IF e = 1 THEN {PxA, PxAB, PxOut} ELSE {PxA, PxOut}]

SentLists == SeqsUpTo(SentZones, MaxZones)

\* set_config messages: a boundaryCircles list alone, or referencePoint / scale alone
ListMsgs == { <<Field("absent", RP0), Field("absent", 0), Field("ok", l)>> : l \in SentLists }
FieldMsgs == { <<Field(a, RP0), Field(b, 10), Field("absent", << >>)>> :
                 a \in {"absent", "bad", "ok"}, b \in {"absent", "bad", "ok"} }

\* samples and registry replaces of one tracking session
NextCircles ==
    \/ \E m \in ListMsgs \cup FieldMsgs : SetConfig(m[1], m[2], m[3])
    \/ StartTracking
    \/ \E t \in Slots : TaskStart(t, TRUE)
    \/ \E t \in Slots, f \in Frames(Walk) : TaskStep(t, TRUE, f)

-----------------------------------------------------------------------------
(* data_tracker.py *)


\* is_in_boundary.  half_size = size / 2 is a true division: the comparisons are
\* made on the doubled values, which are integers.
MutStrictBoundary(cfg, x, y) ==
    /\ cfg.enabled
    /\ 2 * cfg.center.x - cfg.size < 2 * x /\ 2 * x < 2 * cfg.center.x + cfg.size
    /\ 2 * cfg.center.y - cfg.size < 2 * y /\ 2 * y < 2 * cfg.center.y + cfg.size

MutBoundaryIgnoresY(cfg, x, y) ==
    /\ cfg.enabled
    /\ 2 * cfg.center.x - cfg.size <= 2 * x /\ 2 * x <= 2 * cfg.center.x + cfg.size

is_in_boundary(cfg, x, y) ==
    IF ~cfg.enabled THEN FALSE
    ELSE /\ 2 * cfg.center.x - cfg.size <= 2 * x /\ 2 * x <= 2 * cfg.center.x + cfg.size
         /\ 2 * cfg.center.y - cfg.size <= 2 * y /\ 2 * y <= 2 * cfg.center.y + cfg.size

\* An object of a frame of the file: numeric says whether x and y are numbers
Obj(id, x, y, numeric) == [id |-> id, x |-> x, y |-> y, numeric |-> numeric]

\* process_tracking_frames: the body of `for obj in current_frame_data['objects']`
\* on st = [inb, out, violations, objects, raised]
MutExitNotStored(st, obj) ==
    IF st.raised THEN st
    ELSE IF ~obj.numeric /\ BOUNDARY_CONFIG.enabled THEN [st EXCEPT !.raised = TRUE]
    ELSE LET in_boundary == is_in_boundary(BOUNDARY_CONFIG, obj.x, obj.y)
             was_in_boundary == obj.id \in st.inb
             object_data == [id |-> obj.id, x |-> obj.x, y |-> obj.y,
                             in_boundary |-> in_boundary]
         IN  IF in_boundary /\ ~was_in_boundary
             THEN [st EXCEPT !.inb = @ \cup {obj.id},
                             !.violations = @ \cup {Ev("ALERT", obj.id, "square")},
                             !.out = @ \cup {Ev("ENTRY", obj.id, "square")},
                             !.objects = Append(@, object_data)]
             ELSE IF ~in_boundary /\ was_in_boundary
             THEN [st EXCEPT !.out = @ \cup {Ev("EXIT", obj.id, "square")},
                             !.objects = Append(@, object_data)]
             ELSE [st EXCEPT !.objects = Append(@, object_data)]

ProcessObject(st, obj) ==
    IF st.raised THEN st
    ELSE IF ~obj.numeric /\ BOUNDARY_CONFIG.enabled
    THEN \* is_in_boundary raises TypeError: the rest of the frame is not processed
         [st EXCEPT !.raised = TRUE]
    ELSE LET in_boundary == is_in_boundary(BOUNDARY_CONFIG, obj.x, obj.y)
             was_in_boundary == obj.id \in st.inb
             object_data == [id |-> obj.id, x |-> obj.x, y |-> obj.y,
                             in_boundary |-> in_boundary]
         IN  IF in_boundary /\ ~was_in_boundary
             THEN [st EXCEPT !.inb = @ \cup {obj.id},
                             !.violations = @ \cup {Ev("ALERT", obj.id, "square")},
                             !.out = @ \cup {Ev("ENTRY", obj.id, "square")},
                             !.objects = Append(@, object_data)]
             ELSE IF ~in_boundary /\ was_in_boundary
             THEN [st EXCEPT !.inb = @ \ {obj.id},
                             !.out = @ \cup {Ev("EXIT", obj.id, "square")},
                             !.objects = Append(@, object_data)]
             ELSE [st EXCEPT !.objects = Append(@, object_data)]

RECURSIVE ProcessObjects(_, _)
ProcessObjects(st, objs) ==
    IF objs = << >> THEN st
    ELSE ProcessObjects(ProcessObject(st, Head(objs)), Tail(objs))

\* register_client / unregister_client
Register(c) ==
    /\ script = "data_tracker"
    /\ c \notin connected_clients
    /\ Step("register", {})
    /\ connected_clients' = connected_clients \cup {c}
    /\ bcast' = SetChanged(bcast, c)
    /\ emitted' = {}
    /\ broadcast' = "none"
    /\ reply' = "connected"
    /\ UNCHANGED <<script, VideoVars, now, is_running, pc, cap_open, CircleVars, HistVars,
                   BOUNDARY_CONFIG, frame_count, elephants_in_boundary, frame_data>>

Unregister(c) ==
    /\ script = "data_tracker"
    /\ c \in connected_clients
    /\ Step("unregister", {})
    /\ connected_clients' = connected_clients \ {c}
    /\ bcast' = SetChanged(bcast, c)
    /\ emitted' = {}
    /\ broadcast' = "none"
    /\ reply' = "none"
    /\ UNCHANGED <<script, VideoVars, now, is_running, pc, cap_open, CircleVars, HistVars,
                   BOUNDARY_CONFIG, frame_count, elephants_in_boundary, frame_data>>

\* handle_client_message, command start_tracking (data_tracker.py)
StartTrackingData ==
    /\ script = "data_tracker"
    /\ connected_clients # {}
    /\ Step("start_tracking", {})
    /\ IF ~is_running
       THEN /\ FreeSlots # {}
            /\ is_running' = TRUE
            /\ pc' = [pc EXCEPT ![FreeSlot] = "created"]
            /\ reply' = "real_elephant_tracking_started"
       ELSE /\ reply' = "already_running"
            /\ UNCHANGED <<is_running, pc>>
    /\ emitted' = {}
    /\ broadcast' = "none"
    /\ UNCHANGED <<script, VideoVars, now, cap_open, CircleVars, DataVars, HistVars>>

\* process_tracking_frames up to its first await; loaded: load_tracking_data()
DataTaskStart(t, loaded) ==
    /\ script = "data_tracker"
    /\ pc[t] = "created"
    /\ Step("task_start", {})
    /\ IF loaded
       THEN /\ frame_count' = 0
            /\ frame_indexes' = << >>
            /\ unprocessed' = {}
            /\ pc' = [pc EXCEPT ![t] = "loop"]
            /\ broadcast' = "tracking_data_loaded"
       ELSE /\ pc' = [pc EXCEPT ![t] = "done"]
            /\ broadcast' = "none"
            /\ UNCHANGED <<frame_count, frame_indexes, unprocessed>>
    /\ emitted' = {}
    /\ reply' = "none"
    /\ UNCHANGED <<script, VideoVars, now, is_running, cap_open, CircleVars, sentAt, contained, dropped,
                   probe, calls, BOUNDARY_CONFIG, connected_clients, elephants_in_boundary,
                   frame_data, bcast>>

\* the test of `while is_running and connected_clients and frame_count < len(frames)`
MutLoopNeedsTwoClients(running, clients, count) ==
    running /\ Cardinality(clients) > 1 /\ count < NumFrames

LoopContinues(running, clients, count) ==
    running /\ clients # {} /\ count < NumFrames

\* one pass of `while is_running and connected_clients and frame_count < len(frames)`,
\* from the test to the next await; objs: frames[frame_count]['objects']
DataTaskStep(t, objs) ==
    /\ script = "data_tracker"
    /\ pc[t] = "loop"
    /\ reply' = "none"
    /\ IF LoopContinues(is_running, connected_clients, frame_count)
       THEN LET st == ProcessObjects([inb |-> elephants_in_boundary, out |-> {},
                                      violations |-> {}, objects |-> << >>,
                                      raised |-> FALSE], objs)
                sampled == { st.objects[i].id : i \in DOMAIN st.objects }
                Sample(e) == CHOOSE o \in Range(st.objects) : o.id = e
            IN  /\ FrameStep([e \in sampled |-> [x |-> Sample(e).x, y |-> Sample(e).y]],
                             BOUNDARY_CONFIG)
                /\ frame_count' = frame_count + 1
                /\ elephants_in_boundary' = st.inb
                /\ IF st.raised
                   THEN \* except: the error is logged, nothing is broadcast
                        /\ emitted' = st.out
                        /\ broadcast' = "none"
                        /\ frame_data' = << >>
                        /\ UNCHANGED frame_indexes
                        /\ unprocessed' = { objs[i].id : i \in (Len(st.objects) + 2)..Len(objs) }
                   ELSE /\ emitted' = st.out \cup st.violations
                        /\ broadcast' = "animation_frame_update"
                        /\ frame_data' = st.objects
                        /\ frame_indexes' = Append(frame_indexes, frame_count' - 1)
                        /\ unprocessed' = {}
                /\ contained' = Sampled(contained,
                                        [e \in sampled |->
                                            [at |-> [x |-> Sample(e).x, y |-> Sample(e).y],
                                             cfg |-> BOUNDARY_CONFIG,
                                             holds |-> IF Sample(e).in_boundary
                                                       THEN {"square"} ELSE {}]])
                /\ UNCHANGED <<pc, is_running, sentAt, dropped, probe, calls>>
       ELSE IF frame_count >= NumFrames
       THEN \* the completion message is awaited before is_running is cleared
            /\ Step("task_complete", {})
            /\ pc' = [pc EXCEPT ![t] = "finishing"]
            /\ broadcast' = "tracking_complete"
            /\ emitted' = {}
            /\ UNCHANGED <<is_running, frame_count, elephants_in_boundary, frame_data, HistVars>>
       ELSE /\ Step("task_stopped", {})
            /\ pc' = [pc EXCEPT ![t] = "done"]
            /\ is_running' = FALSE
            /\ broadcast' = "none"
            /\ emitted' = {}
            /\ UNCHANGED <<frame_count, elephants_in_boundary, frame_data, HistVars>>
    /\ UNCHANGED <<script, VideoVars, now, cap_open, CircleVars, BOUNDARY_CONFIG, connected_clients, bcast>>

\* the end of process_tracking_frames after the completion message
DataTaskFinish(t) ==
    /\ script = "data_tracker"
    /\ pc[t] = "finishing"
    /\ Step("task_stopped", {})
    /\ pc' = [pc EXCEPT ![t] = "done"]
    /\ is_running' = FALSE
    /\ emitted' = {}
    /\ broadcast' = "none"
    /\ reply' = "none"
    /\ UNCHANGED <<script, VideoVars, now, cap_open, CircleVars, DataVars, HistVars>>

\* the module's globals as the import leaves them; squares: the BOUNDARY_CONFIG of the run
InitData(slots, squares) ==
    /\ script = "data_tracker"
    /\ now = Epoch
    /\ is_running = FALSE
    /\ pc = [t \in slots |-> "none"]
    /\ cap_open = FALSE
    /\ CAMERA_CONFIG = [referencePoint |-> RP0, scale |-> [metersPerUnit |-> 1]]
    /\ boundary_circles = << >>
    /\ elephant_inside_circles = << >>
    /\ last_sms_sent = << >>
    /\ twilio_client = FALSE
    /\ BOUNDARY_CONFIG \in squares
    /\ connected_clients = {}
    /\ frame_count = 0
    /\ elephants_in_boundary = {}
    /\ frame_data = << >>
    /\ emitted = {}
    /\ broadcast = "none"
    /\ reply = "none"
    /\ op = [kind |-> "init", ids |-> {}, same |-> {}, settled |-> {}, key |-> NoProbe,
          sent |-> << >>, stopped |-> FALSE]
    /\ turn = 0
    /\ sentAt = << >>
    /\ contained = << >>
    /\ dropped = {}
    /\ probe = NoProbe
    /\ calls = << >>
    /\ frame_indexes = << >>
    /\ unprocessed = {}
    /\ bcast = NoBroadcast
    /\ object_tracker = << >>
    /\ next_object_id = 1

(* Inputs of the data tracker *)

Clients == {"c1"}

DataIds == {"1", "2"}

\* inside, on the corner of the square, and one unit beyond the corner
Points == { <<220, 260>>, <<250, 300>>, <<251, 300>> }

Objects == { Obj(i, p[1], p[2], TRUE) : i \in DataIds, p \in Points }
            \cup { Obj("1", 0, 0, FALSE) }

\* the frames of the file: every object of a frame has its own id
FileFrames == { f \in SeqsUpTo(Objects, MaxObjects) :
                  \A i, j \in DOMAIN f : f[i].id = f[j].id => i = j }

NextData ==
    \/ \E c \in Clients : Register(c)
    \/ \E c \in Clients : Unregister(c)
    \/ StartTrackingData
    \/ StopTracking
    \/ \E t \in Slots, loaded \in BOOLEAN : DataTaskStart(t, loaded)
    \/ \E t \in Slots, objs \in FileFrames : DataTaskStep(t, objs)
    \/ \E t \in Slots : DataTaskFinish(t)

SpecData == InitData({1}, {Square}) /\ [][NextData]_vars

\* One run of either script
Init == InitRealtime({1}, { <<>>, <<ZA>>, <<ZA, ZB>> }, {NoProbe}, {FALSE})
        \/ InitData({1}, {Square})

Next == NextCircles \/ NextData

Spec == Init /\ [][Next]_vars

-----------------------------------------------------------------------------
(* The SMS cooldown: one elephant, the clock, the test command *)

InitThrottle == InitRealtime({1}, { <<ZA>> }, { <<1, "A">> }, {FALSE})

NextThrottle ==
    \/ \E d \in Steps : Tick(d)
    \/ SetConfig(Field("absent", RP0), Field("absent", 0),
                 Field("ok", <<Sent(ZA, TRUE), Sent(ZE, TRUE)>>))
    \/ StartTracking
    \/ \E t \in Slots : TaskStart(t, TRUE)
    \/ \E t \in Slots, f \in Frames([e \in {1} |-> {PxA, PxE, PxOut}]) : TaskStep(t, TRUE, f)
    \/ \E circle_id \in {"A", ""}, ignore_cooldown \in BOOLEAN :
          SendTestExit(circle_id, 1, ignore_cooldown)

SpecThrottle == InitThrottle /\ [][NextThrottle]_vars

(* The tracking tasks: start, stop, the end of the video or of the file *)

InitTasks == InitRealtime({1, 2}, { <<>> }, {NoProbe}, {FALSE}) \/ InitData({1, 2}, {Square})

NextTasks ==
    \/ StartTracking
    \/ StopTracking
    \/ \E t \in Slots, opened \in BOOLEAN : TaskStart(t, opened)
    \/ \E t \in Slots, ret \in BOOLEAN : TaskStep(t, ret, << >>)
    \/ \E c \in Clients : Register(c)
    \/ \E c \in Clients : Unregister(c)
    \/ StartTrackingData
    \/ \E t \in Slots, loaded \in BOOLEAN : DataTaskStart(t, loaded)
    \/ \E t \in Slots : DataTaskStep(t, << >>)
    \/ \E t \in Slots : DataTaskFinish(t)

SpecTasks == InitTasks /\ [][NextTasks]_vars

(* is_in_boundary over squares and points: a replay of one-object frames *)

Squares == { [enabled |-> TRUE, center |-> [x |-> c[1], y |-> c[2]], size |-> sz] :
               c \in { <<200, 250>>, <<0, 0>> }, sz \in {100, 5, 0} }
           \cup { [Square EXCEPT !.enabled = FALSE] }

\* offsets of a point from the centre of the square
Offsets == {-51, -50, -3, -2, 0, 2, 3, 50, 51}

NextBoundary ==
    \/ \E c \in Clients : Register(c)
    \/ StartTrackingData
    \/ \E t \in Slots : DataTaskStart(t, TRUE)
    \/ \E t \in Slots, dx \in Offsets, dy \in Offsets :
          DataTaskStep(t, << Obj("1", BOUNDARY_CONFIG.center.x + dx,
                                 BOUNDARY_CONFIG.center.y + dy, TRUE) >>)
    \/ \E t \in Slots : DataTaskFinish(t)

SpecBoundary == InitData({1}, Squares) /\ [][NextBoundary]_vars

(* broadcast_to_all_clients, send by send. The tracking tasks above take a broadcast *)
(* as one step; here the completion message of process_tracking_frames is followed  *)
(* from one `await websocket.send` to the next, with register_client and            *)
(* unregister_client running while it is suspended.                                  *)

\* the iterator of `for websocket in connected_clients` raises RuntimeError ("Set
\* changed size during iteration") when the set has not the size it had at the start
IterRaises(b, clients) == Cardinality(clients) # b.used

\* what the iterator may yield next ("-": the loop is over). Over an unchanged set
\* it yields every element once; over a set changed to the same size it walks the
\* hash table as the changes left it: an element may be missed or met twice.
IterNext(b, clients) ==
    IF ~b.changed
    THEN IF clients \ (b.delivered \cup b.disconnected) = {}
         THEN {"-"} ELSE clients \ (b.delivered \cup b.disconnected)
    ELSE (IF b.yielded < b.used THEN clients ELSE {}) \cup {"-"}

\* `await websocket.send(...)` has returned (ok) or raised ConnectionClosed
SendReturned(b, ok) ==
    IF ok THEN [b EXCEPT !.delivered = @ \cup {b.cur},
                         !.completed = @ \cup {b.cur},
                         !.again = @ \cup ({b.cur} \cap b.completed)]
          ELSE [b EXCEPT !.disconnected = @ \cup {b.cur}]

\* process_tracking_frames from the failed loop test to the first send of the
\* completion message (lines 286-288, 74-81)
DataTaskComplete(t) ==
    /\ script = "data_tracker"
    /\ pc[t] = "loop"
    /\ ~LoopContinues(is_running, connected_clients, frame_count)
    /\ frame_count >= NumFrames
    /\ IF connected_clients = {}
       THEN \* broadcast_to_all_clients returns at once
            /\ Step("task_stopped", {})
            /\ pc' = [pc EXCEPT ![t] = "done"]
            /\ is_running' = FALSE
            /\ UNCHANGED bcast
       ELSE /\ Step("task_complete", {})
            /\ pc' = [pc EXCEPT ![t] = "broadcast"]
            /\ \E c \in connected_clients :
                  bcast' = [state |-> "send", used |-> Cardinality(connected_clients),
                            yielded |-> 1, cur |-> c, changed |-> FALSE,
                            stayed |-> connected_clients, delivered |-> {},
                            disconnected |-> {}, completed |-> {}, again |-> {}]
            /\ UNCHANGED is_running
    /\ emitted' = {}
    /\ broadcast' = "none"
    /\ reply' = "none"
    /\ UNCHANGED <<script, VideoVars, now, cap_open, CircleVars, HistVars, BOUNDARY_CONFIG,
                   connected_clients, frame_count, elephants_in_boundary, frame_data>>

\* broadcast_to_all_clients from the return of one send to the next send, or to its
\* end (lines 77-88); ok: the send returned, ~ok: it raised ConnectionClosed
BroadcastResume(t, ok) ==
    /\ script = "data_tracker"
    /\ pc[t] = "broadcast"
    /\ bcast.state = "send"
    /\ LET b == SendReturned(bcast, ok)
       IN  IF IterRaises(b, connected_clients)
           THEN \* RuntimeError leaves broadcast_to_all_clients and the task
                /\ Step("task_raised", {})
                /\ bcast' = [b EXCEPT !.state = "raised"]
                /\ pc' = [pc EXCEPT ![t] = "done"]
                /\ broadcast' = "none"
                /\ UNCHANGED connected_clients
           ELSE \E c \in IterNext(b, connected_clients) :
                   IF c = "-"
                   THEN \* Remove disconnected clients
                        /\ Step("broadcast_done", {})
                        /\ bcast' = [b EXCEPT !.state = "done"]
                        /\ connected_clients' = connected_clients \ b.disconnected
                        /\ pc' = [pc EXCEPT ![t] = "finishing"]
                        /\ broadcast' = "tracking_complete"
                   ELSE /\ Step("broadcast_send", {})
                        /\ bcast' = [b EXCEPT !.cur = c, !.yielded = @ + 1]
                        /\ broadcast' = "none"
                        /\ UNCHANGED <<connected_clients, pc>>
    /\ emitted' = {}
    /\ reply' = "none"
    /\ UNCHANGED <<script, VideoVars, now, is_running, cap_open, CircleVars, HistVars, BOUNDARY_CONFIG,
                   frame_count, elephants_in_boundary, frame_data>>

\* the clients of a broadcast
BroadcastClients == {"c1", "c2"}

NextBroadcast ==
    \/ \E c \in BroadcastClients : Register(c)
    \/ \E c \in BroadcastClients : Unregister(c)
    \/ StartTrackingData
    \/ StopTracking
    \/ \E t \in Slots : DataTaskStart(t, TRUE)
    \/ \E t \in Slots : LoopContinues(is_running, connected_clients, frame_count)
                          /\ DataTaskStep(t, << >>)
    \/ \E t \in Slots : ~LoopContinues(is_running, connected_clients, frame_count)
                          /\ frame_count < NumFrames /\ DataTaskStep(t, << >>)
    \/ \E t \in Slots : DataTaskComplete(t)
    \/ \E t \in Slots, ok \in BOOLEAN : BroadcastResume(t, ok)
    \/ \E t \in Slots : DataTaskFinish(t)

SpecBroadcast == InitData({1}, {Square}) /\ [][NextBroadcast]_vars

(* The same, for the tracking_complete of realtime_tracker.py, which is broadcast *)
(* inside the loop's try block.                                                   *)

\* RealTimeElephantTracker.register_client
register_client(c) ==
    /\ script = "realtime_tracker"
    /\ c \notin connected_clients
    /\ Step("register", {})
    /\ connected_clients' = connected_clients \cup {c}
    /\ bcast' = SetChanged(bcast, c)
    /\ emitted' = {}
    /\ broadcast' = "none"
    /\ reply' = "connected"
    /\ UNCHANGED <<script, VideoVars, now, is_running, pc, cap_open, CircleVars, HistVars,
                   BOUNDARY_CONFIG, frame_count, elephants_in_boundary, frame_data>>

\* RealTimeElephantTracker.unregister_client
unregister_client(c) ==
    /\ script = "realtime_tracker"
    /\ c \in connected_clients
    /\ Step("unregister", {})
    /\ connected_clients' = connected_clients \ {c}
    /\ bcast' = SetChanged(bcast, c)
    /\ emitted' = {}
    /\ broadcast' = "none"
    /\ reply' = "none"
    /\ UNCHANGED <<script, VideoVars, now, is_running, pc, cap_open, CircleVars, HistVars,
                   BOUNDARY_CONFIG, frame_count, elephants_in_boundary, frame_data>>

\* one pass of `while self.is_running` in which process_video_frame returns None,
\* from the test to the first send of tracking_complete (lines 447-461, 141-148)
TaskComplete(t) ==
    /\ script = "realtime_tracker"
    /\ pc[t] = "loop"
    /\ is_running
    /\ IF connected_clients = {}
       THEN \* broadcast_to_all_clients returns at once: break, Cleanup
            /\ Step("task_complete", {})
            /\ pc' = [pc EXCEPT ![t] = "done"]
            /\ cap_open' = FALSE
            /\ UNCHANGED bcast
       ELSE /\ Step("broadcast_send", {})
            /\ pc' = [pc EXCEPT ![t] = "broadcast"]
            /\ \E c \in connected_clients :
                  bcast' = [state |-> "send", used |-> Cardinality(connected_clients),
                            yielded |-> 1, cur |-> c, changed |-> FALSE,
                            stayed |-> connected_clients, delivered |-> {},
                            disconnected |-> {}, completed |-> bcast.completed,
                            again |-> bcast.again]
            /\ UNCHANGED cap_open
    /\ emitted' = {}
    /\ broadcast' = "none"
    /\ reply' = "none"
    /\ UNCHANGED <<script, VideoVars, now, is_running, CircleVars, HistVars, BOUNDARY_CONFIG,
                   connected_clients, frame_count, elephants_in_boundary, frame_data>>

\* broadcast_to_all_clients of tracking_complete from the return of one send to the
\* next send, or to the end of the pass (lines 147-155, 461, 477-483)
TaskResume(t, ok) ==
    /\ script = "realtime_tracker"
    /\ pc[t] = "broadcast"
    /\ bcast.state = "send"
    /\ LET b == SendReturned(bcast, ok)
       IN  IF IterRaises(b, connected_clients)
           THEN \* except Exception: the error is logged, asyncio.sleep(1), next pass
                /\ Step("task_error", {})
                /\ bcast' = [b EXCEPT !.state = "raised"]
                /\ pc' = [pc EXCEPT ![t] = "loop"]
                /\ broadcast' = "none"
                /\ UNCHANGED <<connected_clients, cap_open>>
           ELSE \E c \in IterNext(b, connected_clients) :
                   IF c = "-"
                   THEN \* Remove disconnected clients; break; Cleanup
                        /\ Step("task_complete", {})
                        /\ bcast' = [b EXCEPT !.state = "done"]
                        /\ connected_clients' = connected_clients \ b.disconnected
                        /\ pc' = [pc EXCEPT ![t] = "done"]
                        /\ cap_open' = FALSE
                        /\ broadcast' = "tracking_complete"
                   ELSE /\ Step("broadcast_send", {})
                        /\ bcast' = [b EXCEPT !.cur = c, !.yielded = @ + 1]
                        /\ broadcast' = "none"
                        /\ UNCHANGED <<connected_clients, pc, cap_open>>
    /\ emitted' = {}
    /\ reply' = "none"
    /\ UNCHANGED <<script, VideoVars, now, is_running, CircleVars, HistVars, BOUNDARY_CONFIG,
                   frame_count, elephants_in_boundary, frame_data>>

NextComplete ==
    \/ \E c \in BroadcastClients : register_client(c)
    \/ \E c \in BroadcastClients : unregister_client(c)
    \/ StartTracking
    \/ StopTracking
    \/ \E t \in Slots : TaskStart(t, TRUE)
    \/ \E t \in Slots : (~cap_open \/ ~is_running) /\ TaskStep(t, TRUE, << >>)
    \/ \E t \in Slots : cap_open /\ is_running /\ TaskStep(t, TRUE, << >>)
    \/ \E t \in Slots : TaskComplete(t)
    \/ \E t \in Slots, ok \in BOOLEAN : TaskResume(t, ok)

SpecComplete == InitRealtime({1}, { <<>> }, {NoProbe}, {FALSE}) /\ [][NextComplete]_vars

-----------------------------------------------------------------------------
(* video_tracker.py: simple_motion_detection *)

\* the module's globals as the import leaves them
InitVideo ==
    /\ script = "video_tracker"
    /\ now = Epoch
    /\ is_running = FALSE
    /\ pc = [t \in {1} |-> "none"]
    /\ cap_open = FALSE
    /\ CAMERA_CONFIG = [referencePoint |-> RP0, scale |-> [metersPerUnit |-> 10]]
    /\ boundary_circles = << >>
    /\ elephant_inside_circles = << >>
    /\ last_sms_sent = << >>
    /\ twilio_client = FALSE
    /\ BOUNDARY_CONFIG = Square
    /\ connected_clients = {}
    /\ frame_count = 0
    /\ elephants_in_boundary = {}
    /\ frame_data = << >>
    /\ emitted = {}
    /\ broadcast = "none"
    /\ reply = "none"
    /\ op = [kind |-> "init", ids |-> {}, same |-> {}, settled |-> {}, key |-> NoProbe,
          sent |-> << >>, stopped |-> FALSE]
    /\ turn = 0
    /\ sentAt = << >>
    /\ contained = << >>
    /\ dropped = {}
    /\ probe = NoProbe
    /\ calls = << >>
    /\ frame_indexes = << >>
    /\ unprocessed = {}
    /\ bcast = NoBroadcast
    /\ object_tracker = << >>
    /\ next_object_id = 1

\* the square of np.sqrt((center_x - last_pos[0])**2 + (center_y - last_pos[1])**2)
Distance2(c, last_pos) ==
    (c.x - last_pos.x) * (c.x - last_pos.x) + (c.y - last_pos.y) * (c.y - last_pos.y)

\* the loop over object_tracker.items(): the tracked id nearest to c among those
\* nearer than 100 pixels, the first inserted on a tie (ids are inserted in
\* ascending order); 0: none (closest_id is None)
Closest(tracker, c) ==
    LET near == { i \in DOMAIN tracker : Distance2(c, tracker[i]) < 100 * 100 }
    IN  IF near = {} THEN 0
        ELSE CHOOSE i \in near :
                 \A j \in near : \/ Distance2(c, tracker[i]) < Distance2(c, tracker[j])
                                 \/ (Distance2(c, tracker[i]) = Distance2(c, tracker[j])
                                     /\ i <= j)

\* the loop over the contours whose area passes the threshold; centers: their
\* centres in order; st: object_tracker, next_object_id and the detections so far
RECURSIVE AssignIds(_, _)
AssignIds(st, centers) ==
    IF centers = << >> THEN st
    ELSE LET c == Head(centers)
             closest_id == Closest(st.tracker, c)
             object_id == IF closest_id # 0 THEN closest_id ELSE st.next
         IN  AssignIds([tracker |-> (object_id :> c) @@ st.tracker,
                        next |-> IF closest_id # 0 THEN st.next ELSE st.next + 1,
                        detections |-> Append(st.detections,
                                              [id |-> object_id, x |-> c.x, y |-> c.y])],
                       Tail(centers))

\* simple_motion_detection(frame, prev_frame); has_prev: prev_frame is not None
simple_motion_detection(tracker, next, has_prev, centers) ==
    IF ~has_prev THEN [tracker |-> tracker, next |-> next, detections |-> << >>]
    ELSE AssignIds([tracker |-> tracker, next |-> next, detections |-> << >>], centers)

\* one call of simple_motion_detection by process_video_frames
MotionDetection(has_prev, centers) ==
    /\ script = "video_tracker"
    /\ next_object_id + Len(centers) <= MaxObjectIds + 1
    /\ LET st == simple_motion_detection(object_tracker, next_object_id, has_prev, centers)
       IN  /\ object_tracker' = st.tracker
           /\ next_object_id' = st.next
           /\ frame_data' = st.detections
           /\ Step("detect", { st.detections[i].id : i \in DOMAIN st.detections })
    /\ emitted' = {}
    /\ broadcast' = "none"
    /\ reply' = "none"
    /\ UNCHANGED <<script, now, is_running, pc, cap_open, CircleVars, HistVars, BOUNDARY_CONFIG,
                   connected_clients, frame_count, elephants_in_boundary, bcast>>

\* centres of moving contours, in pixels
Centers == { [x |-> 100, y |-> 100], [x |-> 160, y |-> 100], [x |-> 100, y |-> 199],
             [x |-> 400, y |-> 300] }

\* the contours of one frame: no two have the same centre
Contours == { f \in SeqsUpTo(Centers, MaxObjects) :
                \A i, j \in DOMAIN f : f[i] = f[j] => i = j }

NextMotion == \E has_prev \in BOOLEAN, centers \in Contours :
                 MotionDetection(has_prev, centers)

SpecMotion == InitVideo /\ [][NextMotion]_vars

-----------------------------------------------------------------------------
(* Properties *)

\* a step of the program that processed a frame
FrameProcessed == turn' # turn /\ op'.kind = "frame"

\* the zone ids of the run's registry
ZoneIds == IF script = "realtime_tracker" THEN Ids(boundary_circles) ELSE {"square"}

Alerts == { ev \in emitted : ev.kind \in {"ALERT", "SUPPRESSED"} }

\* C1: with the registry unchanged, a processed sample of an entity emits ENTRY for a
\* zone exactly when the sample is inside and the entity's previous sample was not,
\* EXIT exactly when the sample is outside and the previous one was inside, and
\* nothing for a zone whose containment result did not change; this makes one ENTRY
\* per run of inside-samples and one EXIT per run of outside-samples after it.
C1Step ==
    FrameProcessed =>
        /\ \A e \in op'.ids, z \in ZoneIds :
              LET was == e \in DOMAIN contained /\ z \in contained[e].holds
                  is == z \in contained'[e].holds
              IN  /\ (Ev("ENTRY", e, z) \in emitted') <=> (~was /\ is)
                  /\ (Ev("EXIT", e, z) \in emitted') <=> (was /\ ~is)
        /\ \A ev \in emitted' :
              ev.kind \in {"ENTRY", "EXIT"} => ev.id \in op'.ids /\ ev.zone \in ZoneIds

C2Step ==
    FrameProcessed =>
        /\ \A e \in op'.same :
              /\ \A ev \in emitted' : ev.id # e
              /\ (e \in DOMAIN elephant_inside_circles') = (e \in DOMAIN elephant_inside_circles)
              /\ Get(elephant_inside_circles', e, {}) = Get(elephant_inside_circles, e, {})
              /\ (e \in elephants_in_boundary') = (e \in elephants_in_boundary)
              /\ \A k \in DOMAIN last_sms_sent \cup DOMAIN last_sms_sent' :
                    k[1] = e => Get(last_sms_sent', k, -1) = Get(last_sms_sent, k, -1)
        /\ op'.same = op'.ids =>
              /\ emitted' = {}
              /\ elephant_inside_circles' = elephant_inside_circles
              /\ elephants_in_boundary' = elephants_in_boundary
              /\ last_sms_sent' = last_sms_sent

C2_SameSampleIdempotent == [][C2Step]_vars

\* C2 witness: a frame sampled an entity inside a zone at the position of its
\* previous sample
C2_Witness == op.kind = "frame" /\ \E e \in op.same : contained[e].holds # {}

\* C5: when set_config installs a list without zone "A" while an entity's last
\* sample was inside "A", the replace itself emits nothing, the entity's stored
\* membership no longer has "A", and the entity's next sample emits no EXIT and
\* no exit alert for "A".
C5_NoPhantomExit ==
    /\ op.kind = "set_config" => emitted = {}
    /\ \A d \in dropped \cup op.settled : d[2] \notin Get(elephant_inside_circles, d[1], {})
    /\ op.kind = "frame" =>
          \A d \in op.settled : \A ev \in emitted : ~(ev.id = d[1] /\ ev.zone = d[2])

\* C5 witness: elephant 1 was inside "A", a replace removed "A", and the elephant's
\* next sample has been processed
C5_Witness == op.kind = "frame" /\ <<1, "A">> \in op.settled

\* C6: every zone id in the stored membership of any entity is the id of a circle
\* of the current registry.
C6_MembershipWithinRegistry ==
    \A e \in DOMAIN elephant_inside_circles :
        elephant_inside_circles[e] \subseteq Ids(boundary_circles)

\* C6 witness: after a replace removed a circle an elephant was in, the elephant was
\* sampled again and is stored as inside a circle of the new registry
C6_Witness ==
    /\ op.kind = "frame" /\ op.settled # {}
    /\ \E e \in DOMAIN elephant_inside_circles : elephant_inside_circles[e] # {}

\* C8 as stated: in both trackers an alert is emitted only for an EXIT transition,
\* never for an ENTRY transition.
C8_AlertsExitOnly ==
    op.kind = "frame" =>
        \A ev \in Alerts : /\ Ev("EXIT", ev.id, ev.zone) \in emitted
                           /\ Ev("ENTRY", ev.id, ev.zone) \notin emitted

\* C8 amended: the circle tracker reaches its alerting path only for an EXIT
\* transition, never for an ENTRY; the square-boundary tracker emits boundary_alert
\* only for an ENTRY transition, never for an EXIT.
C8_AlertsPerTracker ==
    op.kind = "frame" =>
        \A ev \in Alerts :
            IF script = "realtime_tracker"
            THEN /\ Ev("EXIT", ev.id, ev.zone) \in emitted
                 /\ Ev("ENTRY", ev.id, ev.zone) \notin emitted
            ELSE /\ Ev("ENTRY", ev.id, ev.zone) \in emitted
                 /\ Ev("EXIT", ev.id, ev.zone) \notin emitted
                 /\ ev.kind = "ALERT"

\* C8 witness: one frame of the circle tracker with an ENTRY transition and with an
\* EXIT transition that reached the alerting path
C8_Witness ==
    /\ script = "realtime_tracker" /\ op.kind = "frame"
    /\ \E ev \in emitted : ev.kind = "ENTRY"
    /\ Alerts # {}

-----------------------------------------------------------------------------
(* The registry: lists with entries float() rejects and with a radius of 0 *)

RegistryLists == SeqsUpTo({Sent(ZA, TRUE), Sent(ZA, FALSE), Sent(ZN, TRUE)}, MaxZones)

NextRegistry ==
    \/ \E l \in RegistryLists :
          SetConfig(Field("absent", RP0), Field("absent", 0), Field("ok", l))
    \/ StartTracking
    \/ \E t \in Slots : TaskStart(t, TRUE)
    \/ \E t \in Slots, f \in Frames([e \in {1} |-> {PxA, PxOut}]) : TaskStep(t, TRUE, f)

SpecRegistry == InitRealtime({1}, { <<>> }, {NoProbe}, {FALSE}) /\ [][NextRegistry]_vars

\* the entries of a sent list with a numeric center and a radius above 0
RECURSIVE WellFormed(_)
WellFormed(l) ==
    IF l = << >> THEN << >>
    ELSE IF Head(l).numeric /\ Head(l).radius > 0
         THEN << [id |-> Head(l).id, center |-> Head(l).center, radius |-> Head(l).radius] >>
              \o WellFormed(Tail(l))
         ELSE WellFormed(Tail(l))

\* C11: after a replace the registry is the list sent without its malformed
\* entries (center or radius not numeric, radius not above 0): every circle kept has
\* a radius above 0, and the well-formed entries of the update are all installed.
C11Step ==
    (turn' # turn /\ op'.kind = "set_config" /\ boundary_circles' # boundary_circles) =>
        /\ \E l \in RegistryLists : boundary_circles' = WellFormed(l)
        /\ \A i \in DOMAIN boundary_circles' : boundary_circles'[i].radius > 0

C11_RegistryValidated == [][C11Step]_vars

(* The SMS transport: Twilio configured or not, accepting or failing *)

NextTransport ==
    \/ \E d \in Steps : Tick(d)
    \/ StartTracking
    \/ StopTracking
    \/ \E t \in Slots : TaskStart(t, TRUE)
    \/ \E t \in Slots, f \in Frames([e \in {1} |-> {PxA, PxOut}]) : TaskStep(t, TRUE, f)
    \/ \E t \in Slots, ok \in BOOLEAN : TransportReturn(t, ok)

SpecTransport == InitRealtime({1}, { <<ZA>> }, {NoProbe}, BOOLEAN) /\ [][NextTransport]_vars

\* C13: the dispatch of an exit notification runs beside the tracking loop, not inside
\* the processing of the sample: no tracking task is ever held in the transport call,
\* so while a notification is being sent the loop is free to take the next sample.
C13_DispatchBesideLoop == \A t \in Slots : pc[t] # "sending"

\* C20: a transport that fails, or that is not configured, leaves the sample as a
\* successful dispatch leaves it: the membership stored for the entities of the frame
\* is what the frame holds, the frame is broadcast, and the loop is back at its
\* next pass with no second attempt in progress.
C20_TransportFailureHarmless ==
    (\/ op.kind \in {"sms_sent", "sms_failed"}
     \/ (op.kind = "frame" /\ ~twilio_client /\ \E ev \in emitted : ev.kind = "ALERT")) =>
        /\ \A e \in op.ids : Get(elephant_inside_circles, e, {}) = contained[e].holds
        /\ broadcast = "live_tracking_update"
        /\ \A t \in Slots : pc[t] # "sending"

C20_Witness ==
    /\ op.kind = "sms_failed"
    /\ op.ids = {1}
    /\ contained[1].holds = {}
    /\ <<1, "A">> \in DOMAIN last_sms_sent

\* a frame processed with its malformed samples left out and every other sample handled
RECURSIVE SkipMalformed(_, _)
SkipMalformed(st, objs) ==
    IF objs = << >> THEN st
    ELSE SkipMalformed(IF Head(objs).numeric THEN ProcessObject(st, Head(objs)) ELSE st,
                       Tail(objs))

\* C12: a malformed sample is skipped alone: the frame it came in is processed as the
\* frame without it (membership and frame objects of the other entities as usual, no
\* change for the entity of the bad sample), the frame is broadcast and the loop goes on.
C12Step ==
    (FrameProcessed /\ script = "data_tracker") =>
        /\ \E objs \in FileFrames :
              LET st == SkipMalformed([inb |-> elephants_in_boundary, out |-> {},
                                       violations |-> {}, objects |-> << >>,
                                       raised |-> FALSE], objs)
              IN  /\ elephants_in_boundary' = st.inb
                  /\ frame_data' = st.objects
        /\ broadcast' = "animation_frame_update"
        /\ \E t \in Slots : pc'[t] = "loop"

C12_MalformedSampleSkipped == [][C12Step]_vars

\* the entries of a sent list that the per-entry validation of a replace accepts
Accepted(l) ==
    LET keep == { i \in DOMAIN l : l[i].numeric }
        nth(k) == CHOOSE i \in keep : Cardinality({ j \in keep : j < i }) = k - 1
    IN  [k \in 1..Cardinality(keep) |->
            [id |-> l[nth(k)].id, center |-> l[nth(k)].center, radius |-> l[nth(k)].radius]]

\* C21: a replace is wholesale: the registry changes only in a set_config step, and
\* after a replace the registry is exactly the accepted zones of the list sent, in the
\* order of that list, whatever the registry held before.
C21Step ==
    /\ boundary_circles' # boundary_circles => (op'.kind = "set_config" /\ turn' # turn)
    /\ (turn' # turn /\ op'.sent # << >>) => boundary_circles' = Accepted(op'.sent[1])

C21_ReplaceWholesale == [][C21Step]_vars

\* C21 witness: a replace by the list (bad A, B) while elephant 1 was inside circle A
\* of the registry (A, B): only B is left
C21_Witness ==
    /\ op.kind = "set_config"
    /\ op.sent = << <<Sent(ZA, FALSE), Sent(ZB, TRUE)>> >>
    /\ boundary_circles = <<ZB>>
    /\ <<1, "A">> \in dropped

\* C22: no two zones held in the registry have the same id.
C22_UniqueZoneIds ==
    \A i, j \in DOMAIN boundary_circles :
        boundary_circles[i].id = boundary_circles[j].id => i = j

\* C23: the throttle state only grows: no step removes the entry of a pair that has
\* a send time recorded, and no step makes a recorded send time smaller.
C23Step ==
    \A key \in DOMAIN last_sms_sent :
        /\ key \in DOMAIN last_sms_sent'
        /\ last_sms_sent'[key] >= last_sms_sent[key]

C23_ThrottleOnlyGrows == [][C23Step]_vars

(* _pixels_to_latlng over reference points and scales *)

RefPoints == { RP0, [lat |-> RP0.lat + 500, lng |-> RP0.lng - 700],
               [lat |-> RP0.lat - 20000, lng |-> RP0.lng + 20000] }

Scales == {-1, 0, 1, 10}

NextTransform ==
    \/ \E r \in RefPoints, m \in Scales :
          SetConfig(Field("ok", r), Field("ok", m), Field("absent", << >>))
    \/ StartTracking
    \/ \E t \in Slots : TaskStart(t, TRUE)
    \/ \E t \in Slots, f \in Frames([e \in {1} |-> {FrameCenter, PxAB, PxOut}]) :
          TaskStep(t, TRUE, f)

SpecTransform == InitRealtime({1}, { <<ZA>> }, {NoProbe}, {FALSE}) /\ [][NextTransform]_vars

\* C24: a detection at the frame center, the planar origin of _pixels_to_latlng, is
\* placed exactly at the reference point, under every reference point and scale.
C24_OriginIsReferencePoint ==
    \A e \in DOMAIN contained :
        (script = "realtime_tracker" /\ contained[e].at = FrameCenter) =>
            contained[e].pos = contained[e].cfg.referencePoint

\* C24 witness: a detection at the frame center under a reference point and a scale
\* that set_config installed
C24_Witness ==
    /\ script = "realtime_tracker"
    /\ 1 \in DOMAIN contained
    /\ contained[1].at = FrameCenter
    /\ contained[1].cfg = [referencePoint |-> [lat |-> RP0.lat + 500, lng |-> RP0.lng - 700],
                           scale |-> [metersPerUnit |-> -1]]
    /\ contained[1].pos = [lat |-> RP0.lat + 500, lng |-> RP0.lng - 700]

\* C25: a session that start_tracking begins starts from fresh state: when its task
\* has loaded the file and stands before its first frame, the frame counter is 0 and
\* nobody is recorded inside the boundary.
C25_SessionStartsFresh ==
    (script = "data_tracker" /\ op.kind = "task_start" /\ \E t \in Slots : pc[t] = "loop") =>
        /\ frame_count = 0
        /\ elephants_in_boundary = {}

(* Replaces that keep circle A: the registry is (A, B) or (A) throughout *)

NextReplace ==
    \/ \E l \in { <<Sent(ZA, TRUE)>>, <<Sent(ZA, TRUE), Sent(ZB, TRUE)>> } :
          SetConfig(Field("absent", RP0), Field("absent", 0), Field("ok", l))
    \/ StartTracking
    \/ \E t \in Slots : TaskStart(t, TRUE)
    \/ \E t \in Slots, f \in Frames(Walk) : TaskStep(t, TRUE, f)

SpecReplace == InitRealtime({1}, { <<ZA, ZB>> }, {NoProbe}, {FALSE}) /\ [][NextReplace]_vars

\* C26: the first sample of an elephant after a replace (or after the start) emits an
\* ENTRY for every circle of the registry that holds the sample, whether or not the
\* elephant was inside a circle of that id before the replace.
C26Step ==
    (FrameProcessed /\ script = "realtime_tracker") =>
        \A e \in op'.ids :
            e \notin DOMAIN contained =>
                \A z \in Ids(boundary_circles) :
                    z \in Holding(CAMERA_CONFIG, boundary_circles, contained'[e].at)
                        => Ev("ENTRY", e, z) \in emitted'

C26_ReplaceRetriggersEntry == [][C26Step]_vars

\* C26 witness: elephant 1 stood inside A and B when a replace dropped B and kept A
\* (only the pixel inside both circles is inside B); its next sample is inside A and
\* has emitted ENTRY for A again
C26_Witness ==
    /\ script = "realtime_tracker"
    /\ op.kind = "frame"
    /\ <<1, "B">> \in op.settled
    /\ "A" \in Ids(boundary_circles)
    /\ Ev("ENTRY", 1, "A") \in emitted

\* C27: membership is replaced, not merged: after a frame processed under a registry
\* that is not empty, the set stored for every elephant of the frame is exactly the
\* set of ids of the circles whose distance test the sample passes, whatever was
\* stored for the elephant before.
C27Step ==
    (FrameProcessed /\ script = "realtime_tracker" /\ boundary_circles # << >>) =>
        \A e \in op'.ids :
            LET p == pixels_to_latlng(CAMERA_CONFIG, contained'[e].at.x, contained'[e].at.y)
            IN  /\ e \in DOMAIN elephant_inside_circles'
                /\ elephant_inside_circles'[e] =
                       { boundary_circles[i].id :
                           i \in { j \in DOMAIN boundary_circles :
                                     InCircle(boundary_circles[j], p.lat, p.lng) } }

C27_MembershipReplaced == [][C27Step]_vars

\* C27 witness: elephant 1 was stored inside A and B, its sample is inside A only, and
\* the set stored now is {A}
C27_Witness ==
    /\ script = "realtime_tracker"
    /\ op.kind = "frame"
    /\ Ev("EXIT", 1, "B") \in emitted
    /\ 1 \in DOMAIN elephant_inside_circles
    /\ elephant_inside_circles[1] = {"A"}

\* C28: a sample that places an elephant inside two or more circles it was not in
\* before emits an ENTRY for each of them in that one step, and all of them are in
\* the membership stored by the step.
C28Step ==
    (FrameProcessed /\ script = "realtime_tracker") =>
        \A e \in op'.ids :
            LET before == Get(elephant_inside_circles, e, {})
                p == pixels_to_latlng(CAMERA_CONFIG, contained'[e].at.x, contained'[e].at.y)
                fresh == { z \in Ids(boundary_circles) \ before :
                             \E i \in DOMAIN boundary_circles :
                                 /\ boundary_circles[i].id = z
                                 /\ InCircle(boundary_circles[i], p.lat, p.lng) }
            IN  Cardinality(fresh) >= 2 =>
                    /\ \A z \in fresh : Ev("ENTRY", e, z) \in emitted'
                    /\ fresh \subseteq Get(elephant_inside_circles', e, {})

C28_SimultaneousEntries == [][C28Step]_vars

\* C28 witness: one sample brought elephant 1 into A and B at once
C28_Witness ==
    /\ script = "realtime_tracker"
    /\ op.kind = "frame"
    /\ Ev("ENTRY", 1, "A") \in emitted
    /\ Ev("ENTRY", 1, "B") \in emitted
    /\ Get(elephant_inside_circles, 1, {}) = {"A", "B"}

\* C29: when a tracking task has ended, for whatever reason, and no task is left,
\* is_running is false, so that the next start_tracking starts a loop.
C29_EndedMeansNotRunning ==
    (/\ \A t \in Slots : pc[t] \in {"none", "done"}
     /\ \E t \in Slots : pc[t] = "done") => ~is_running

\* C30: once stop_tracking has been handled and no start_tracking has arrived since,
\* no step of a tracking loop processes a frame.
C30_NoFrameAfterStop == [][FrameProcessed => ~op.stopped]_vars

\* C31: a replay that has consumed every frame, with is_running never cleared by a
\* stop and a client connected all along, ends with is_running false.
C31_ReplayEndsNotRunning ==
    \A t \in Slots :
        (/\ script = "data_tracker"
         /\ pc[t] = "done"
         /\ op.kind \in {"task_stopped", "task_raised"}
         /\ frame_count >= NumFrames
         /\ bcast.stayed # {}) => ~is_running

\* C32: within one tracking session no connection is sent tracking_complete twice.
C32_CompleteAtMostOnce == bcast.again = {}

\* C33: a step that does not replace the registry changes the stored membership of
\* no entity but those the frame samples, and a frame emits transitions and alerts
\* for the entities it samples only: an entity inside a zone that is no longer
\* sampled stays stored inside, with no EXIT.
C33Step ==
    (turn' # turn /\ ~(op'.kind = "set_config" /\ op'.sent # << >>)) =>
        LET sampled == IF op'.kind = "frame" THEN op'.ids ELSE {}
        IN  /\ script = "realtime_tracker" =>
                 \A e \in (DOMAIN elephant_inside_circles
                            \cup DOMAIN elephant_inside_circles') \ sampled :
                     /\ e \in DOMAIN elephant_inside_circles
                     /\ e \in DOMAIN elephant_inside_circles'
                     /\ elephant_inside_circles'[e] = elephant_inside_circles[e]
            /\ script = "data_tracker" =>
                 \A e \in (elephants_in_boundary \cup elephants_in_boundary') \ sampled :
                     e \in elephants_in_boundary /\ e \in elephants_in_boundary'
            /\ op'.kind = "frame" => \A ev \in emitted' : ev.id \in sampled

C33_OwnSamplesOnly == [][C33Step]_vars

\* C33 witness: a frame sampled elephant 2 and not elephant 1, which is stored
\* inside circle A
C33_Witness ==
    /\ script = "realtime_tracker"
    /\ op.kind = "frame"
    /\ op.ids = {2}
    /\ 1 \in DOMAIN elephant_inside_circles
    /\ "A" \in elephant_inside_circles[1]
    /\ Ev("ENTRY", 2, "A") \in emitted

\* C34: a set_config that carries no boundaryCircles list, and so replaces nothing,
\* leaves the registry, the stored membership and the throttle as they were.
C34Step ==
    (turn' # turn /\ op'.kind = "set_config" /\ op'.sent = << >>) =>
        /\ boundary_circles' = boundary_circles
        /\ elephant_inside_circles' = elephant_inside_circles
        /\ last_sms_sent' = last_sms_sent

C34_FieldsOnlyKeepsRegistry == [][C34Step]_vars

\* C34 witness: a set_config with a scale and no list was answered config_updated
\* while elephant 1 is stored inside circle A of the registry
C34_Witness ==
    /\ script = "realtime_tracker"
    /\ op.kind = "set_config"
    /\ op.sent = << >>
    /\ reply = "config_updated"
    /\ CAMERA_CONFIG.scale.metersPerUnit = 10
    /\ boundary_circles = <<ZA>>
    /\ 1 \in DOMAIN elephant_inside_circles
    /\ elephant_inside_circles[1] = {"A"}

(* set_config with every combination of referencePoint, scale and boundaryCircles *)

ConfigMsgs ==
    { <<Field(a, r), Field(b, m), l>> :
        a \in {"absent", "bad", "ok"}, r \in RefPoints,
        b \in {"absent", "bad", "ok"}, m \in {1, 10},
        l \in {Field("absent", << >>), Field("ok", << Sent(ZB, TRUE) >>)} }

NextConfig ==
    \/ \E m \in ConfigMsgs : SetConfig(m[1], m[2], m[3])
    \/ StartTracking
    \/ \E t \in Slots : TaskStart(t, TRUE)
    \/ \E t \in Slots, f \in Frames([e \in {1} |-> {PxAB, PxOut}]) : TaskStep(t, TRUE, f)

SpecConfig == InitRealtime({1}, { <<ZA>> }, {NoProbe}, {FALSE}) /\ [][NextConfig]_vars

\* C35: a set_config whose handling raises (no config_updated answer) changes none
\* of referencePoint, scale, the registry and the stored membership.
C35Step ==
    (turn' # turn /\ op'.kind = "set_config" /\ reply' # "config_updated") =>
        /\ CAMERA_CONFIG' = CAMERA_CONFIG
        /\ boundary_circles' = boundary_circles
        /\ elephant_inside_circles' = elephant_inside_circles

C35_ConfigAllOrNothing == [][C35Step]_vars

\* C36: the throttle holds the time of every dispatch attempted, whether the
\* transport sent it, failed or is disabled, and an EXIT of a pair within the
\* cooldown of its last attempt is suppressed.
C36Step ==
    (turn' # turn /\ script = "realtime_tracker") =>
        /\ \A k \in DOMAIN sentAt' :
               k \in DOMAIN last_sms_sent' /\ last_sms_sent'[k] = sentAt'[k]
        /\ op'.kind = "frame" =>
               \A ev \in emitted' :
                   (/\ ev.kind = "EXIT"
                    /\ <<ev.id, ev.zone>> \in DOMAIN sentAt
                    /\ now - sentAt[<<ev.id, ev.zone>>] < SMS_COOLDOWN_SECONDS) =>
                       /\ Ev("SUPPRESSED", ev.id, ev.zone) \in emitted'
                       /\ Ev("ALERT", ev.id, ev.zone) \notin emitted'

C36_AttemptRecorded == [][C36Step]_vars

\* C38: a start_tracking answered tracking_started has created a tracking task, and
\* the task it created begins its loop: its source opens.
C38Step ==
    (turn' # turn /\ script = "realtime_tracker") =>
        /\ (op'.kind = "start_tracking" /\ reply' = "tracking_started") =>
               \E t \in Slots : pc[t] # "created" /\ pc'[t] = "created"
        /\ op'.kind = "task_start" =>
               \E t \in Slots : pc[t] = "created" /\ pc'[t] = "loop"

C38_StartedMeansLoop == [][C38Step]_vars

\* C37: broadcast_to_all_clients never raises, whatever registers or unregisters
\* while it is suspended on a send.
C37_BroadcastNeverRaises == bcast.state # "raised"

\* C39: within one frame no two detections are assigned the same object id.
C39_DistinctIdsInFrame ==
    script = "video_tracker" =>
        \A i, j \in DOMAIN frame_data : frame_data[i].id = frame_data[j].id => i = j

\* C3: an EXIT of elephant e from circle z at time now sends a notification if and
\* only if no notification for (e, z) was dispatched less than SMS_COOLDOWN_SECONDS
\* before now.
C3Step ==
    FrameProcessed =>
        \A e \in op'.ids, z \in Ids(boundary_circles) :
            Ev("EXIT", e, z) \in emitted' =>
                (Ev("ALERT", e, z) \in emitted'
                    <=> (<<e, z>> \in DOMAIN sentAt => now - sentAt[<<e, z>>] >= SMS_COOLDOWN_SECONDS))

C3_ThrottlePolicy == [][C3Step]_vars

\* C4: with no earlier alert for the pair, the first call of _maybe_send_exit_sms
\* for it sends; a second call 60 seconds after the first is suppressed; a call 130
\* seconds after the first, nothing sent for the pair in between, sends.
C4_CooldownScenario ==
    \A j \in 1..Len(calls) :
        (\A i \in 1..j : calls[i].what # "POP") =>
            /\ j = 1 => calls[j].what = "ALERT"
            /\ calls[j].t - calls[1].t = 60 => calls[j].what = "SUPPRESSED"
            /\ (/\ calls[j].t - calls[1].t = 130
                /\ \A i \in 2..(j - 1) : calls[i].what = "SUPPRESSED")
               => calls[j].what = "ALERT"

\* C4 witness: three exits of the probe pair: sent, suppressed 60 seconds later,
\* sent 130 seconds after the first
C4_Witness ==
    /\ Len(calls) = 3
    /\ <<calls[1].what, calls[2].what, calls[3].what>> = <<"ALERT", "SUPPRESSED", "ALERT">>
    /\ calls[2].t = calls[1].t + 60
    /\ calls[3].t = calls[1].t + 130

\* C14: the cooldown check of a pair and the recording of its send time are one step
\* of the program: a step that lets a notification for (e, z) pass without the
\* force flag saw no send recorded for the pair within the cooldown, and the same
\* step leaves the send recorded at the current time; a step that suppresses one saw a
\* recorded send within the cooldown.  So of two checks at the same instant, by the
\* loop and by send_test_exit in either order, the later one finds the record of the first.
C14Step ==
    (turn' # turn) =>
        \A ev \in emitted' :
            LET key == <<ev.id, ev.zone>>
            IN  /\ ev.kind = "ALERT" =>
                    /\ key \in DOMAIN last_sms_sent' /\ last_sms_sent'[key] = now
                    /\ op'.kind # "force_test_exit" => ~CooldownActive(last_sms_sent, key, now)
                /\ ev.kind = "SUPPRESSED" =>
                    /\ CooldownActive(last_sms_sent, key, now)
                    /\ last_sms_sent'[key] = last_sms_sent[key]

C15_RegistrySwapAtomic ==
    \A e \in DOMAIN elephant_inside_circles :
        /\ e \in DOMAIN contained
        /\ elephant_inside_circles[e] =
               Holding(contained[e].cfg, boundary_circles, contained[e].at)

\* C15 witness: a replace arrived between two frames of a running loop while an
\* elephant was recorded inside a circle
C15_Witness ==
    /\ op.kind = "set_config"
    /\ dropped # {}
    /\ elephant_inside_circles = << >>
    /\ is_running
    /\ \E t \in Slots : pc[t] = "loop"

\* C16: once the loop has halted, the membership stored is the complete result of the
\* last frame processed: every object of that frame was handled, and every entity is
\* recorded inside exactly the zones its latest sample is in.
C16_StopLeavesCompleteFrame ==
    op.kind = "task_stopped" =>
        /\ unprocessed = {}
        /\ \A e \in DOMAIN elephant_inside_circles :
              elephant_inside_circles[e] =
                  Holding(contained[e].cfg, boundary_circles, contained[e].at)
        /\ script = "data_tracker" =>
              \A e \in DOMAIN contained :
                  e \in elephants_in_boundary <=> contained[e].holds = {"square"}

\* C17: every frame the loop has taken from the file was broadcast exactly once and in
\* order: the frame_index values broadcast so far are 0, 1, ..., frame_count - 1.
C17_FramesInOrder ==
    script = "data_tracker" => frame_indexes = [i \in 1..frame_count |-> i - 1]

\* a tracking task leaves its processing loop in this step
LoopEnds(t) == pc[t] = "loop" /\ pc'[t] \in {"done", "finishing"}

\* the source has no sample left: the file is at its end, the video is over or not open
Exhausted ==
    IF script = "data_tracker" THEN frame_count >= NumFrames ELSE op'.kind = "task_complete"

\* C18 as stated: a tracking loop ends only when its stream is exhausted or a stop was
\* requested (is_running cleared); nothing else, and no processing error, ends it.
C18StepStated == \A t \in Slots : LoopEnds(t) => (~is_running \/ Exhausted)

C18_EndsOnlyByStopOrExhaustion == [][C18StepStated]_vars

\* C18 amended: a tracking loop ends only when its stream is exhausted, when
\* is_running was cleared, or, in data_tracker.py, when no client is connected;
\* a frame whose processing raised is followed by the next pass of the loop.
C18Step ==
    /\ \A t \in Slots :
          LoopEnds(t) => \/ ~is_running
                         \/ Exhausted
                         \/ script = "data_tracker" /\ connected_clients = {}
    /\ (FrameProcessed /\ script = "data_tracker" /\ broadcast' = "none") =>
          \A t \in Slots : pc[t] = "loop" => pc'[t] = "loop"

C18_EndsOnlyByStopExhaustionOrNoClient == [][C18Step]_vars

\* C18 witness: frame 0 of the file raised and the loop went on to broadcast frame 1
C18_Witness ==
    /\ script = "data_tracker"
    /\ op.kind = "frame"
    /\ frame_count = 2
    /\ frame_indexes = <<1>>
    /\ is_running
    /\ \E t \in Slots : pc[t] = "loop"

\* C19: a send_test_exit with the force flag for an elephant and a circle of the
\* registry sends the notification whatever the cooldown of the pair, and leaves the
\* send recorded at the current time, so that the cooldown runs from the forced send.
C19Step ==
    (turn' # turn /\ op'.kind = "force_test_exit" /\ op'.key[2] \in Ids(boundary_circles)) =>
        /\ Ev("ALERT", op'.key[1], op'.key[2]) \in emitted'
        /\ op'.key \in DOMAIN last_sms_sent'
        /\ last_sms_sent'[op'.key] = now

C19_ForceSendRecords == [][C19Step]_vars

\* C7: at most one tracking task is inside its processing loop at any time.
C7_SingleLoop == Cardinality({ t \in Slots : pc[t] = "loop" }) <= 1

\* C9 as stated: with center (200, 250) and size 100, (250, 300) is reported outside
\* and (220, 260) inside.
C9_SquareExample ==
    BOUNDARY_CONFIG = Square =>
        \A i \in DOMAIN frame_data :
            LET o == frame_data[i]
            IN  /\ (o.x = 250 /\ o.y = 300) => ~o.in_boundary
                /\ (o.x = 220 /\ o.y = 260) => o.in_boundary

\* C9 amended: with center (200, 250) and size 100, (250, 300), which lies on the
\* corner of the square, is reported inside, and (220, 260) is reported inside.
C9_SquareExampleInclusive ==
    BOUNDARY_CONFIG = Square =>
        \A i \in DOMAIN frame_data :
            LET o == frame_data[i]
            IN  /\ (o.x = 250 /\ o.y = 300) => o.in_boundary
                /\ (o.x = 220 /\ o.y = 260) => o.in_boundary

\* C9 witness: one frame update reports an object at (250, 300) and one at (220, 260)
C9_Witness ==
    /\ BOUNDARY_CONFIG = Square
    /\ \E i, j \in DOMAIN frame_data :
          /\ frame_data[i].x = 250 /\ frame_data[i].y = 300
          /\ frame_data[j].x = 220 /\ frame_data[j].y = 260

Abs(n) == IF n < 0 THEN -n ELSE n

\* C10: for an enabled square, a point is reported inside exactly when each of its
\* coordinates is within size/2 of the centre's, both ends included.
C10_SquareRule ==
    BOUNDARY_CONFIG.enabled =>
        \A i \in DOMAIN frame_data :
            LET o == frame_data[i]
            IN  o.in_boundary <=> /\ 2 * Abs(o.x - BOUNDARY_CONFIG.center.x) <= BOUNDARY_CONFIG.size
                                  /\ 2 * Abs(o.y - BOUNDARY_CONFIG.center.y) <= BOUNDARY_CONFIG.size

\* C10 witness: a point on the right edge of an enabled square was reported inside
C10_Witness ==
    /\ BOUNDARY_CONFIG.enabled /\ BOUNDARY_CONFIG.size > 0
    /\ \E i \in DOMAIN frame_data :
          /\ 2 * (frame_data[i].x - BOUNDARY_CONFIG.center.x) = BOUNDARY_CONFIG.size
          /\ frame_data[i].in_boundary
====
